---- MODULE Spec2Model ----
(***************************************************************************)
(* Model of the Samba VFS module "rdirect" (src/vfs_rdirect.c).            *)
(*                                                                         *)
(* The source holds two builds of the module:                              *)
(*   passthrough  (lines 1-167):   openat adds O_DIRECT, pread delegates   *)
(*                                 to the next VFS layer;                  *)
(*   standalone   (lines 169-347): pread resolves the descriptor to a      *)
(*                                 path, re-opens it with O_DIRECT, reads  *)
(*                                 and closes.                             *)
(* Both share the fake-async pread_send / pread_recv pair.                 *)
(***************************************************************************)
EXTENDS Integers, FiniteSets, Sequences, TLC

VARIABLES
    variant,   \* which build of the module is loaded
    phase,     \* position of the caller: idle / returned / submitted / ...
    fdTable,   \* descriptors open in the process
    data,      \* caller's destination address of the current request
    n,         \* caller's requested length
    offset,    \* caller's file offset
    mem,       \* process memory, address -> byte
    call,      \* what the last execution of rdirect_pread did
    req,       \* the tevent request of the async surface
    aio,       \* what rdirect_pread_recv handed to its caller
    opened,    \* the last rdirect_openat call: flags in, mode, flags passed on
    av         \* aligned view computed for (data, n)

vars == <<variant, phase, fdTable, data, n, offset, mem, call, req, aio, opened, av>>

-----------------------------------------------------------------------------
(* Bounds of the model *)

\* width of uintptr_t / size_t in the model (64 in the build; scaled down)
PtrBits == 12
\* number of bytes of mapped process memory that the model tracks
MemSize == 2048
\* length of the file the share serves
FileLen == 1500
\* width of the uint64_t error slot of a tevent request (scaled down)
WideBits == 20
\* width of int (scaled down)
IntBits == 16
\* number of flag bits rdirect_openat is exercised with
FlagBits == 20

(* Program constants *)

\* the literal 512 of the minimum-size test and of the rounding
BlockSize == 512
\* <fcntl.h>, Linux x86: O_DIRECT = 040000, O_DIRECTORY = 0200000
O_DIRECT == 16384
O_DIRECTORY == 65536
\* descriptor of the file the SMB client opened (fsp_get_io_fd)
FspFd == 3

Pow2(k) == 2 ^ k
PtrMod == Pow2(PtrBits)

-----------------------------------------------------------------------------
(* Machine arithmetic *)

RECURSIVE BitAnd(_, _, _)
\* a & b on `bits`-bit unsigned operands
BitAnd(a, b, bits) ==
    IF bits = 0 THEN 0
    ELSE (a % 2) * (b % 2) + 2 * BitAnd(a \div 2, b \div 2, bits - 1)

RECURSIVE BitOr(_, _, _)
\* a | b on `bits`-bit unsigned operands
BitOr(a, b, bits) ==
    IF bits = 0 THEN 0
    ELSE (IF a % 2 = 1 \/ b % 2 = 1 THEN 1 ELSE 0)
         + 2 * BitOr(a \div 2, b \div 2, bits - 1)

\* ~a on a `bits`-bit unsigned operand
BitNot(a, bits) == Pow2(bits) - 1 - a

\* (uintptr_t) / (size_t) conversion: reduction modulo 2^PtrBits
ToSizeT(x) == x % PtrMod

-----------------------------------------------------------------------------
(* rdirect_openat, passthrough build *)

\* variant of the test: the flag is added for every nonzero mode
RdirectOpenFlags_NonzeroMode(flags, mode) ==
    IF BitAnd(flags, O_DIRECTORY, FlagBits) = 0 /\ mode # 0
    THEN BitOr(flags, O_DIRECT, FlagBits)
    ELSE flags

\* lines 44-49: flags |= O_DIRECT under the two conditions
RdirectOpenFlags(flags, mode) ==
    IF BitAnd(flags, O_DIRECTORY, FlagBits) = 0 /\ mode = 0
    THEN BitOr(flags, O_DIRECT, FlagBits)
    ELSE flags

-----------------------------------------------------------------------------
(* Alignment of the destination buffer *)

\* variant of the rounding: a whole block is added before masking
AlignUp_AddBlock(addr) ==
    BitAnd(ToSizeT(addr + BlockSize), BitNot(BlockSize - 1, PtrBits), PtrBits)

\* buffer = ((uintptr_t)data + 511) & ~(uintptr_t)511
AlignUp(addr) ==
    BitAnd(ToSizeT(addr + (BlockSize - 1)), BitNot(BlockSize - 1, PtrBits), PtrBits)

\* rndup = (size_t)(buffer - (uintptr_t)data)
Rndup(addr) == ToSizeT(AlignUp(addr) - addr)

\* variant of the length policy: both builds round the length down
XferLen_AlwaysRoundDown(v, addr, len) ==
    BitAnd(ToSizeT(len - Rndup(addr)), BitNot(BlockSize - 1, PtrBits), PtrBits)

\* n = n - rndup                      (passthrough)
\* n = (n - rndup) & ~(size_t)511     (standalone)
XferLen(v, addr, len) ==
    LET reduced == ToSizeT(len - Rndup(addr))
    IN IF v = "standalone"
       THEN BitAnd(reduced, BitNot(BlockSize - 1, PtrBits), PtrBits)
       ELSE reduced

AlignedView(v, addr, len) ==
    [buffer |-> AlignUp(addr), rndup |-> Rndup(addr), xfer |-> XferLen(v, addr, len)]

-----------------------------------------------------------------------------
(* Memory, the served file and the operating system *)

Min(a, b) == IF a <= b THEN a ELSE b

Addrs == 0 .. (MemSize - 1)
\* content of the caller's buffer before a call (never a file byte)
Poison == Pow2(8) - 1
FreshMem == [a \in Addrs |-> Poison]
\* byte at position p of the served file
FileByte(p) == p % 251

\* errno values a failing system call leaves behind (EIO, EINVAL)
Errnos == {5, 22}
\* errno that tevent_req_is_unix_error reports for a request that is neither
\* done nor failed with a user error
EINVAL == 22

\* the kernel (or the next VFS layer) stores cnt file bytes, taken from file
\* position pos, at address buffer
ReadInto(m, buffer, cnt, pos) ==
    [a \in DOMAIN m |->
        IF a >= buffer /\ a < buffer + cnt THEN FileByte(pos + (a - buffer)) ELSE m[a]]

\* results a read of xfer bytes at file position pos can have: -1, or the
\* number of bytes delivered (short reads included, 0 only when nothing is
\* left or nothing was asked for)
ReadOutcomes(xfer, pos) ==
    LET avail == IF pos >= FileLen THEN 0 ELSE FileLen - pos
        mx    == Min(xfer, avail)
    IN  (IF xfer > 0 THEN {-1} ELSE {})
        \cup (IF mx = 0 THEN {0} ELSE {c \in {1, mx \div 2, mx} : c >= 1})

\* open() returns the lowest descriptor that is not in use
LowestFree(fds) ==
    CHOOSE f \in 0 .. Cardinality(fds) :
        f \notin fds /\ \A g \in 0 .. (f - 1) : g \in fds

-----------------------------------------------------------------------------
\* The shift-back loop
\*     for (size_t i = 0; i < (size_t)count; ++i)
\*         data[i] = buffer[i];
\* st.m is the memory, st.hz records whether some iteration read an
\* address that an earlier iteration of the loop had written.

ShiftStep(st, d, buffer, i) ==
    [m  |-> [st.m EXCEPT ![d + i] = st.m[buffer + i]],
     hz |-> st.hz \/ (buffer + i >= d /\ buffer + i < d + i)]

RECURSIVE ShiftRange_Descending(_, _, _, _, _)
\* variant of the loop: the same iterations in descending order of i
ShiftRange_Descending(st, d, buffer, lo, hi) ==
    IF lo >= hi THEN st
    ELSE IF hi - lo = 1 THEN ShiftStep(st, d, buffer, lo)
    ELSE LET mid  == lo + (hi - lo) \div 2
             last == ShiftRange_Descending(st, d, buffer, mid, hi)
         IN  IF last.hz \in BOOLEAN
             THEN ShiftRange_Descending(last, d, buffer, lo, mid)
             ELSE last

RECURSIVE ShiftRange(_, _, _, _, _)
\* iterations lo .. hi-1 of the loop, in ascending order of i
ShiftRange(st, d, buffer, lo, hi) ==
    IF lo >= hi THEN st
    ELSE IF hi - lo = 1 THEN ShiftStep(st, d, buffer, lo)
    ELSE LET mid   == lo + (hi - lo) \div 2
             first == ShiftRange(st, d, buffer, lo, mid)
         IN  IF first.hz \in BOOLEAN
             THEN ShiftRange(first, d, buffer, mid, hi)
             ELSE first

\* the whole loop, run for `iters` iterations
ShiftBack(m, d, buffer, iters) ==
    ShiftRange([m |-> m, hz |-> FALSE], d, buffer, 0, iters)

-----------------------------------------------------------------------------
(* rdirect_pread *)

\* an execution of rdirect_pread that has done nothing yet
Base(m, fds) ==
    [ret |-> 0, crashed |-> FALSE, mem |-> m, fds |-> fds,
     buffer |-> -1, rndup |-> 0, xfer |-> -1,
     nextReads |-> 0, resolves |-> 0, opens |-> 0, openedFd |-> -1, closes |-> 0,
     cnt |-> 0, errno |-> 0, shifted |-> 0, hazard |-> FALSE, written |-> {}]

\* variant of the minimum-size test: only very short buffers are refused
TooSmall_Lax(len) == len < 100

\* if (n < 512) return -1;
TooSmall(len) == len < BlockSize

\* passthrough build, lines 55-91
PreadPassthrough(m, fds, d, len, off, env) ==
    IF TooSmall(len)
    THEN [Base(m, fds) EXCEPT !.ret = -1]
    ELSE LET v         == AlignedView("passthrough", d, len)
             count     == env.cnt
             afterRead == IF count > 0 THEN ReadInto(m, v.buffer, count, off) ELSE m
             doShift   == count > 0 /\ v.rndup # 0
             sh        == IF doShift
                          THEN ShiftBack(afterRead, d, v.buffer, ToSizeT(count))
                          ELSE [m |-> afterRead, hz |-> FALSE]
         IN  [Base(m, fds) EXCEPT
                 !.ret = count, !.mem = sh.m,
                 !.buffer = v.buffer, !.rndup = v.rndup, !.xfer = v.xfer,
                 !.nextReads = 1, !.cnt = count,
                 !.errno = IF count < 0 THEN env.errno ELSE 0,
                 !.shifted = IF doShift THEN ToSizeT(count) ELSE 0,
                 !.hazard = sh.hz,
                 !.written = IF doShift THEN {d + i : i \in 0 .. (count - 1)} ELSE {}]

\* standalone build, lines 205-272
PreadStandalone(m, fds, d, len, off, env) ==
    IF off > 0
    THEN [Base(m, fds) EXCEPT !.ret = 0]
    ELSE IF TooSmall(len)
    THEN [Base(m, fds) EXCEPT !.ret = -1]
    ELSE IF env.linkLen <= 0
    THEN [Base(m, fds) EXCEPT !.ret = -1, !.resolves = 1,
                              !.errno = IF env.linkLen < 0 THEN env.errno ELSE 0]
    ELSE IF env.fd <= 0
    THEN [Base(m, fds) EXCEPT !.ret = -1, !.resolves = 1, !.opens = 1,
                              !.openedFd = env.fd,
                              !.fds = IF env.fd = 0 THEN fds \cup {0} ELSE fds,
                              !.errno = IF env.fd < 0 THEN env.errno ELSE 0]
    ELSE LET v         == AlignedView("standalone", d, len)
             count     == env.cnt
             afterRead == IF count > 0 THEN ReadInto(m, v.buffer, count, 0) ELSE m
             \* (size_t)count: a failed read makes the bound 2^w - 1
             bound     == ToSizeT(count)
             \* first iteration whose load leaves the mapped memory
             fault     == env.mapEnd - v.buffer
             iters     == IF v.rndup # 0 THEN Min(bound, fault) ELSE 0
             crashLoop == v.rndup # 0 /\ bound > fault
             sh        == ShiftBack(afterRead, d, v.buffer, iters)
             termAddr  == d + count
             crashTerm == ~crashLoop /\ termAddr >= env.mapEnd
             crash     == crashLoop \/ crashTerm
             final     == IF crash THEN sh.m ELSE [sh.m EXCEPT ![termAddr] = 0]
         IN  [Base(m, fds) EXCEPT
                 !.ret = count, !.crashed = crash, !.mem = final,
                 !.buffer = v.buffer, !.rndup = v.rndup, !.xfer = v.xfer,
                 !.nextReads = 1, !.resolves = 1, !.opens = 1,
                 !.openedFd = env.fd, !.closes = 1, !.cnt = count,
                 !.errno = IF count < 0 THEN env.errno ELSE 0,
                 !.shifted = iters,
                 !.hazard = sh.hz,
                 !.written = {d + i : i \in 0 .. (iters - 1)}
                             \cup (IF crash THEN {} ELSE {termAddr})]

PreadOutcome(v, m, fds, d, len, off, env) ==
    IF v = "standalone"
    THEN PreadStandalone(m, fds, d, len, off, env)
    ELSE PreadPassthrough(m, fds, d, len, off, env)

\* what the operating system and the next layer may answer during one call
Envs(v, fds, d, len, off) ==
    LET quiet == [linkLen |-> 1, fd |-> -1, cnt |-> 0, errno |-> 0, mapEnd |-> MemSize]
        reads(pos) ==
            {[quiet EXCEPT !.cnt = c, !.errno = e] :
                c \in ReadOutcomes(XferLen(v, d, len), pos), e \in Errnos}
    IN  IF len < BlockSize \/ (v = "standalone" /\ off > 0)
        THEN {quiet}
        ELSE IF v = "passthrough"
        THEN {r \in reads(off) : r.cnt < 0 \/ r.errno = 5}
        ELSE {[quiet EXCEPT !.linkLen = l, !.errno = 5] : l \in {-1, 0}}
             \cup {[quiet EXCEPT !.fd = f, !.errno = 5] : f \in {-1, 0} \ fds}
             \cup {[r EXCEPT !.fd = LowestFree(fds), !.mapEnd = e] :
                     r \in {x \in reads(0) : x.cnt < 0 \/ x.errno = 5},
                     e \in {d + len, MemSize}}

-----------------------------------------------------------------------------
(* The tevent request, as rdirect_pread_send / rdirect_pread_recv use it *)

\* (uint64_t) conversion of the error argument of tevent_req_error
U64(x) == x % Pow2(WideBits)
\* (int) conversion: the low IntBits bits, read as a signed number
AsInt(x) ==
    LET low == x % Pow2(IntBits)
    IN  IF low >= Pow2(IntBits - 1) THEN low - Pow2(IntBits) ELSE low

NoReq ==
    [state |-> "none", error |-> 0, bytes_read |-> 0, aio_error |-> 0,
     posted |-> FALSE, fn |-> FALSE, notified |-> 0, returned |-> FALSE]

\* tevent_req_create: a zeroed state, request in progress, no callback yet
tevent_req_create == [NoReq EXCEPT !.state = "in_progress"]

\* tevent_req_finish: record the final state and call the callback if the
\* caller has set one
tevent_req_finish(r, st) ==
    [r EXCEPT !.state = st, !.notified = IF r.fn THEN @ + 1 ELSE @]

\* tevent_req_error(req, error): a zero error is not an error
tevent_req_error(r, e) ==
    IF U64(e) = 0 THEN r
    ELSE tevent_req_finish([r EXCEPT !.error = U64(e)], "user_error")

tevent_req_done(r) == tevent_req_finish(r, "done")

\* tevent_req_post: schedule an immediate event that triggers the request
tevent_req_post(r) == [r EXCEPT !.posted = TRUE]

\* the immediate event's handler: finish the request again with its state
tevent_req_trigger(r) == tevent_req_finish([r EXCEPT !.posted = FALSE], r.state)

\* tevent_req_is_unix_error(req, &err)
tevent_req_is_unix_error(r) ==
    IF r.state = "done" THEN [is |-> FALSE, err |-> 0]
    ELSE IF r.state = "user_error" THEN [is |-> TRUE, err |-> AsInt(r.error)]
    ELSE [is |-> TRUE, err |-> EINVAL]

\* variant of the submit path: the completion is never scheduled
SendFinish_NoPost(r, ret) ==
    IF ret < 0
    THEN tevent_req_error(r, ret)
    ELSE tevent_req_done([r EXCEPT !.bytes_read = ret])

\* variant of the submit path: the request is posted but not marked done
SendFinish_NotDone(r, ret) ==
    IF ret < 0
    THEN tevent_req_post(tevent_req_error(r, ret))
    ELSE tevent_req_post([r EXCEPT !.bytes_read = ret])

\* rdirect_pread_send after the read, lines 123-131
SendFinish(r, ret) ==
    IF ret < 0
    THEN tevent_req_post(tevent_req_error(r, ret))
    ELSE tevent_req_post(tevent_req_done([r EXCEPT !.bytes_read = ret]))

\* rdirect_pread_recv, lines 135-148: the return value and the caller's
\* vfs_aio_state.error
RecvResult(r) ==
    LET e == tevent_req_is_unix_error(r)
    IN  IF e.is THEN [ret |-> -1, error |-> e.err]
        ELSE [ret |-> r.bytes_read, error |-> r.aio_error]

-----------------------------------------------------------------------------
(* State *)

NoCall == [f \in DOMAIN Base(FreshMem, {}) \ {"mem", "fds"} |-> Base(FreshMem, {})[f]]
CallOf(out) == [f \in DOMAIN NoCall |-> out[f]]
NoAio == [done |-> FALSE, ret |-> 0, error |-> 0, early |-> FALSE]
NoOpen == [flags |-> 0, mode |-> 0, passed |-> -1]
NoAv == [buffer |-> -1, rndup |-> -1, xfer |-> -1]

Variants == {"passthrough", "standalone"}
\* destination addresses: aligned, and 511, 509 and 3 bytes below a boundary
DataAddrs == {BlockSize, BlockSize + 1, BlockSize + 3, 2 * BlockSize - 3}
Lengths == {100, BlockSize - 1, BlockSize, 600, 2 * BlockSize}
Offsets == {0, BlockSize}
\* descriptor tables of the server process: stdin open or closed
FdTables == {{1, 2, FspFd}, {0, 1, 2, FspFd}}
OpenFlags ==
    {a + b + c + d + e : a \in {0, 1, 2}, b \in {0, 64}, c \in {0, O_DIRECT},
                         d \in {0, O_DIRECTORY}, e \in {0, 524288}}
\* 0, 0644, 0x1e4
OpenModes == {0, 420, 484}

Quiet ==
    /\ fdTable \in FdTables
    /\ offset = 0
    /\ mem = FreshMem
    /\ call = NoCall
    /\ req = NoReq
    /\ aio = NoAio

Init ==
    /\ Quiet
    /\ variant \in Variants
    /\ phase = "idle"
    /\ data \in DataAddrs
    /\ n \in Lengths
    /\ opened = NoOpen
    /\ av = NoAv

-----------------------------------------------------------------------------
(* Operations *)

\* the synchronous entry point .pread_fn
rdirect_pread ==
    /\ phase = "idle"
    /\ \E env \in Envs(variant, fdTable, data, n, offset) :
          LET out == PreadOutcome(variant, mem, fdTable, data, n, offset, env)
          IN  /\ mem' = out.mem
              /\ fdTable' = out.fds
              /\ call' = CallOf(out)
              /\ phase' = IF out.crashed THEN "crashed" ELSE "returned"
    /\ UNCHANGED <<variant, data, n, offset, req, aio, opened, av>>

\* .pread_send_fn, lines 103-132
rdirect_pread_send ==
    /\ phase = "idle"
    /\ \E allocOk \in BOOLEAN :
          IF ~allocOk
          THEN /\ phase' = "nomem"
               /\ UNCHANGED <<mem, fdTable, call, req>>
          ELSE \E env \in Envs(variant, fdTable, data, n, offset) :
                  LET out == PreadOutcome(variant, mem, fdTable, data, n, offset, env)
                      ret == AsInt(out.ret)
                  IN  /\ mem' = out.mem
                      /\ fdTable' = out.fds
                      /\ call' = CallOf(out)
                      /\ IF out.crashed
                         THEN /\ phase' = "crashed"
                              /\ req' = tevent_req_create
                         ELSE /\ phase' = "submitted"
                              /\ req' = [SendFinish(tevent_req_create, ret)
                                            EXCEPT !.returned = TRUE]
    /\ UNCHANGED <<variant, data, n, offset, aio, opened, av>>

\* the caller registers its completion callback on the returned request
SetCallback ==
    /\ phase = "submitted"
    /\ req.returned
    /\ ~req.fn
    /\ req' = [req EXCEPT !.fn = TRUE]
    /\ UNCHANGED <<variant, phase, fdTable, data, n, offset, mem, call, aio, opened, av>>

\* one iteration of the event loop runs the scheduled immediate event
Tick ==
    /\ phase = "submitted"
    /\ req.posted
    /\ req' = tevent_req_trigger(req)
    /\ UNCHANGED <<variant, phase, fdTable, data, n, offset, mem, call, aio, opened, av>>

\* .pread_recv_fn, lines 135-148
rdirect_pread_recv ==
    /\ phase = "submitted"
    /\ LET r == RecvResult(req)
       IN  aio' = [done |-> TRUE, ret |-> r.ret, error |-> r.error,
                   early |-> req.notified = 0]
    /\ phase' = "received"
    /\ UNCHANGED <<variant, fdTable, data, n, offset, mem, call, req, opened, av>>

\* the caller prepares its next read
NextRequest ==
    /\ phase \in {"returned", "received", "nomem"}
    /\ phase' = "idle"
    /\ data' \in DataAddrs
    /\ n' \in Lengths
    /\ offset' \in Offsets
    /\ mem' = FreshMem
    /\ call' = NoCall
    /\ req' = NoReq
    /\ aio' = NoAio
    /\ UNCHANGED <<variant, fdTable, opened, av>>

Next ==
    \/ rdirect_pread
    \/ rdirect_pread_send
    \/ SetCallback
    \/ Tick
    \/ rdirect_pread_recv
    \/ NextRequest

Spec == Init /\ [][Next]_vars

-----------------------------------------------------------------------------
(* rdirect_openat on its own: every (flags, mode) of the bounded sets *)

InitOpen ==
    /\ Quiet
    /\ variant = "passthrough"
    /\ phase = "closed"
    /\ data = BlockSize
    /\ n = BlockSize
    /\ opened \in [flags : OpenFlags, mode : OpenModes, passed : {-1}]
    /\ av = NoAv

\* .openat_fn, lines 33-51: the flags handed to SMB_VFS_NEXT_OPENAT
rdirect_openat ==
    /\ phase = "closed"
    /\ phase' = "open"
    /\ opened' = [opened EXCEPT !.passed = RdirectOpenFlags(opened.flags, opened.mode)]
    /\ UNCHANGED <<variant, fdTable, data, n, offset, mem, call, req, aio, av>>

NextOpen == rdirect_openat

SpecOpen == InitOpen /\ [][NextOpen]_vars

-----------------------------------------------------------------------------
(* The address arithmetic on its own: every address of the pointer width *)

InitAlign ==
    /\ Quiet
    /\ variant \in Variants
    /\ phase = "align"
    /\ data \in 0 .. (PtrMod - 1)
    /\ n \in {BlockSize, 600}
    /\ opened = NoOpen
    /\ av = NoAv

\* lines 67-75 and 248-257
ComputeAlignedView ==
    /\ phase = "align"
    /\ phase' = "aligned"
    /\ av' = AlignedView(variant, data, n)
    /\ UNCHANGED <<variant, fdTable, data, n, offset, mem, call, req, aio, opened>>

NextAlign == ComputeAlignedView

SpecAlign == InitAlign /\ [][NextAlign]_vars

-----------------------------------------------------------------------------
(* Properties *)

\* bit `bit` (a power of two) is set in x
HasBit(x, bit) == (x \div bit) % 2 = 1
\* distance from addr up to the next multiple of the block size
RoundingOffset(addr) == (BlockSize - (addr % BlockSize)) % BlockSize
\* rdirect_pread has run and returned to its caller
Called == phase \in {"returned", "submitted", "received"}
\* rdirect_pread has run, whether it returned or the process died in it
Executed == Called \/ phase = "crashed"
\* file position the bytes of the current request come from
ReadPos == IF variant = "standalone" THEN 0 ELSE offset
\* the call touched neither the next layer, the descriptor table nor memory
NoIO ==
    /\ call.nextReads = 0
    /\ call.resolves = 0
    /\ call.opens = 0
    /\ call.closes = 0
    /\ call.written = {}
    /\ mem = FreshMem

\* C1 (as stated): the direct-I/O flag is added to the flags handed to the
\* next layer unless the directory bit is set or mode is exactly zero; in
\* those two cases the flags are handed on unchanged.
C1_AsStated ==
    phase = "open" =>
        IF HasBit(opened.flags, O_DIRECTORY) \/ opened.mode = 0
        THEN opened.passed = opened.flags
        ELSE /\ HasBit(opened.passed, O_DIRECT)
             /\ \A b \in 0 .. (FlagBits - 1) :
                   Pow2(b) # O_DIRECT =>
                       HasBit(opened.passed, Pow2(b)) = HasBit(opened.flags, Pow2(b))

\* C1 (amended): the direct-I/O flag is added exactly when the directory bit
\* is clear and mode is exactly zero; every other bit, and the flags of every
\* other call, are handed on unchanged.
C1_OpenPolicy ==
    phase = "open" =>
        LET add == ~HasBit(opened.flags, O_DIRECTORY) /\ opened.mode = 0
        IN  /\ HasBit(opened.passed, O_DIRECT) = (HasBit(opened.flags, O_DIRECT) \/ add)
            /\ \A b \in 0 .. (FlagBits - 1) :
                   Pow2(b) # O_DIRECT =>
                       HasBit(opened.passed, Pow2(b)) = HasBit(opened.flags, Pow2(b))
            /\ opened.passed < Pow2(FlagBits)

C1_Witness ==
    /\ phase = "open"
    /\ opened.mode = 0
    /\ ~HasBit(opened.flags, O_DIRECTORY)
    /\ ~HasBit(opened.flags, O_DIRECT)
    /\ opened.passed = opened.flags + O_DIRECT

\* C2 (as stated): in both builds a read with length < 512, at any offset,
\* returns -1 and performs no I/O.
C2_AsStated ==
    (Called /\ n < BlockSize) => (call.ret = -1 /\ NoIO)

\* C2 (amended): a read with length < 512 performs no I/O in either build;
\* it returns -1, except in the standalone build at an offset > 0, where the
\* offset test comes first and the read returns 0.
C2_MinimumLength ==
    (Called /\ n < BlockSize) =>
        /\ NoIO
        /\ call.ret = (IF variant = "standalone" /\ offset > 0 THEN 0 ELSE -1)

C2_Witness ==
    /\ phase = "returned"
    /\ n = BlockSize - 1
    /\ offset > 0
    /\ variant = "passthrough"
    /\ call.ret = -1
    /\ NoIO

\* C3: after a successful read of count > 0 bytes into a destination with a
\* nonzero rounding offset, the bytes data[0 .. count-1] are the bytes the
\* underlying read delivered (the file bytes from the position read), and no
\* iteration of the forward shift read a byte the shift had already written.
C3_ContentPreserved ==
    (Called /\ call.ret > 0 /\ RoundingOffset(data) # 0) =>
        /\ \A i \in 0 .. (call.ret - 1) : mem[data + i] = FileByte(ReadPos + i)
        /\ ~call.hazard
        /\ call.shifted = call.ret

C3_Witness ==
    /\ phase = "returned"
    /\ RoundingOffset(data) = 3
    /\ call.ret > BlockSize
    /\ call.shifted = call.ret
    /\ mem[data] = FileByte(ReadPos)
    /\ mem[data + call.ret - 1] = FileByte(ReadPos + call.ret - 1)

\* C4: in the standalone build, whenever the open of the resolved path
\* returned a valid descriptor (0 included), that descriptor is closed when
\* the read is over.
C4_DescriptorClosed ==
    (Executed /\ variant = "standalone" /\ call.opens = 1 /\ call.openedFd >= 0) =>
        (call.closes = 1 /\ call.openedFd \notin fdTable)

\* C5: the completion callback is never run during submit: when submit
\* returns the handle, the result is stored, the request is finished and its
\* notification is scheduled but not delivered; the callback runs only in a
\* later event-loop step, taken after the handle was returned.
C5_NotifyAfterSubmit ==
    [][ /\ (phase # "submitted" /\ phase' = "submitted") =>
              /\ req'.returned
              /\ req'.state \in {"done", "user_error"}
              /\ (req'.state = "done" => req'.bytes_read = call'.ret)
              /\ req'.posted
              /\ req'.notified = 0
        /\ (req'.notified > req.notified) =>
              /\ phase = "submitted"
              /\ req.returned
              /\ req.posted
              /\ ~req'.posted
      ]_vars

C5_Witness ==
    /\ phase = "submitted"
    /\ req.notified = 1
    /\ req.state = "user_error"
    /\ ~req.posted

\* C6 (as stated): a receive issued after submit returned but before the
\* notification fired does not return the completed result (the stored byte
\* count).
C6_AsStated ==
    (aio.done /\ aio.early) => ~(req.state = "done" /\ aio.ret = req.bytes_read)

\* C6 (amended): a receive issued after submit returned but before the
\* notification fired returns the outcome that submit stored: the byte count
\* of a successful read, -1 for a failed one; there is no "not yet complete"
\* outcome.
C6_EarlyReceive ==
    (aio.done /\ aio.early) =>
        IF call.ret >= 0
        THEN aio.ret = call.ret /\ aio.error = 0
        ELSE aio.ret = -1

C6_Witness ==
    /\ aio.done
    /\ aio.early
    /\ req.posted
    /\ aio.ret = call.ret
    /\ aio.ret > 0

\* C7: when the low-level read fails with OS error code e, receive returns
\* -1 and sets the caller's vfs_aio_state error to e.
C7_ErrnoPropagated ==
    (aio.done /\ call.nextReads = 1 /\ call.cnt < 0) =>
        (aio.ret = -1 /\ aio.error = call.errno)

\* C8 (as stated): for every address of the pointer width and every length
\* >= 512, the aligned address is a multiple of 512 and >= the address, and
\* the rounding offset (aligned - address) is in 0 .. 511.
C8_AsStated ==
    phase = "aligned" =>
        /\ av.buffer % BlockSize = 0
        /\ av.buffer >= data
        /\ av.rndup = av.buffer - data
        /\ av.rndup \in 0 .. (BlockSize - 1)

\* C8 (amended): for every address of the pointer width the aligned address
\* is a multiple of 512, the rounding offset is in 0 .. 511 and address +
\* offset is the aligned address modulo 2^w; the aligned address is >= the
\* address exactly for the addresses up to 2^w - 512, and is 0 for the
\* addresses within 511 of the top of the address space.
C8_Alignment ==
    phase = "aligned" =>
        /\ av.buffer % BlockSize = 0
        /\ av.rndup \in 0 .. (BlockSize - 1)
        /\ av.rndup = RoundingOffset(data)
        /\ (data + av.rndup) % PtrMod = av.buffer
        /\ (data <= PtrMod - BlockSize) =>
               (av.buffer >= data /\ av.rndup = av.buffer - data)
        /\ (data > PtrMod - BlockSize) => av.buffer = 0

C8_Witness ==
    /\ phase = "aligned"
    /\ data % BlockSize = BlockSize - 3
    /\ av.buffer = data + 3
    /\ av.rndup = 3

C10_NoWriteOnFailure ==
    Executed =>
        /\ (call.nextReads = 1 /\ call.cnt < 0) =>
              /\ phase # "crashed"
              /\ call.ret = -1
              /\ call.shifted = 0
              /\ call.written = {}
        /\ (call.shifted > 0) =>
              (call.cnt > 0 /\ call.rndup # 0 /\ call.shifted = call.cnt)
        /\ \A a \in call.written : a >= data /\ a <= data + n

====
